---- MODULE Spec2Model ----
(***************************************************************************)
(* A model of git_tools.py: the upstream tree builder (upstream_tree), the *)
(* tree renderer (branch_tree_string) and the recursive rebase (flow).     *)
(*                                                                         *)
(* A Python string is a sequence of one-character strings.  The box        *)
(* drawing characters are written "u2502" (vertical bar), "u2514" (corner),*)
(* "u251C" (tee) and "u2500" (dash); a terminal escape code is one element *)
(* such as "ESC[92m".  A Python value that may be None, an int, a str or a *)
(* TermString is a record [t, n, s, f]: its type, its integer, its string  *)
(* and its formatting tuple.                                               *)
(***************************************************************************)
EXTENDS Integers, Sequences, FiniteSets, TLC

\* At most this many local branches in the repository.
MaxBranches == 4

\* A branch holds at most this many commits of its own.
MaxCount == 2

\* node.title[:50]
TitleWidth == 50

VARIABLES
    refs,        \* the lines `git for-each-ref` prints: "<branch> <upstream>"
    head,        \* what `git rev-parse --abbrev-ref HEAD` names
    head0,       \* head when the process started
    pc,          \* "main", "built" (in branch_tree_string), "flow", "done"
    nodes,       \* the dictionary upstream_tree() returned
    table,       \* branch_tree_string's table
    stack,       \* recursive_rebase's frames, innermost last
    parent,      \* flow's parent
    calls,       \* the rebase and checkout commands issued, in order
    printed,     \* what was printed to standard output, in order
    emptyReply,  \* some query made by upstream_tree printed no line
    exitStatus   \* the process's exit status, -1 while it runs

vars == <<refs, head, head0, pc, nodes, table, stack, parent, calls, printed,
          emptyReply, exitStatus>>

---------------------------------------------------------------------------
(* Strings *)

Origin == <<"o", "r", "i", "g", "i", "n", "/">>
HeadName == <<"H", "E", "A", "D">>
Dangling == <<"z", "z">>
Space == <<" ">>

\* The branch names of the model, in ascending order.
BranchPool ==
    << <<"a">>, <<"b">>, Origin \o <<"a">>, <<"q">>, <<"r">>, <<"s">> >>

Min(a, b) == IF a < b THEN a ELSE b
Max(a, b) == IF a > b THEN a ELSE b

Range(s) == {s[i] : i \in 1..Len(s)}

\* The code point of a character of a branch name.
Ord(c) ==
    CASE c = "/" -> 47
      [] c = "a" -> 97
      [] c = "b" -> 98
      [] c = "g" -> 103
      [] c = "i" -> 105
      [] c = "n" -> 110
      [] c = "o" -> 111
      [] c = "q" -> 113
      [] c = "r" -> 114
      [] c = "s" -> 115
      [] c = "z" -> 122
      [] OTHER -> 0

\* s < t on Python strings
RECURSIVE StrLess(_, _)
StrLess(s, t) ==
    IF t = <<>> THEN FALSE
    ELSE IF s = <<>> THEN TRUE
    ELSE IF Ord(Head(s)) # Ord(Head(t)) THEN Ord(Head(s)) < Ord(Head(t))
    ELSE StrLess(Tail(s), Tail(t))

\* s.startswith(p)
StartsWith(s, p) == Len(s) >= Len(p) /\ SubSeq(s, 1, Len(p)) = p

\* s[:n]
Truncate(s, n) == SubSeq(s, 1, Min(n, Len(s)))

\* " " * n
Spaces(n) == [i \in 1..Max(n, 0) |-> " "]

\* line.split(" ")
RECURSIVE SplitFrom(_, _, _)
SplitFrom(line, i, field) ==
    IF i > Len(line) THEN <<field>>
    ELSE IF line[i] = " " THEN <<field>> \o SplitFrom(line, i + 1, <<>>)
    ELSE SplitFrom(line, i + 1, Append(field, line[i]))

Split(line) == SplitFrom(line, 1, <<>>)

Digits == <<"0", "1", "2", "3", "4", "5", "6", "7", "8", "9">>

\* str(n) of a natural number
RECURSIVE StrOfNat(_)
StrOfNat(n) ==
    IF n < 10 THEN <<Digits[n + 1]>>
    ELSE StrOfNat(n \div 10) \o <<Digits[(n % 10) + 1]>>

\* str(n)
StrOfInt(n) == IF n < 0 THEN <<"-">> \o StrOfNat(-n) ELSE StrOfNat(n)

DigitValue(c) == CHOOSE d \in 0..9 : Digits[d + 1] = c

\* int(s) of a string of digits
RECURSIVE IntOfStr(_)
IntOfStr(s) ==
    IF s = <<>> THEN 0
    ELSE 10 * IntOfStr(SubSeq(s, 1, Len(s) - 1)) + DigitValue(s[Len(s)])

---------------------------------------------------------------------------
(* Python values *)

PyNone == [t |-> "None", n |-> 0, s |-> <<>>, f |-> <<>>]
PyInt(k) == [t |-> "int", n |-> k, s |-> <<>>, f |-> <<>>]
PyStr(str) == [t |-> "str", n |-> 0, s |-> str, f |-> <<>>]

\* TermString(string, *formatting): _string = str(string)
TermString(str, formatting) ==
    [t |-> "TermString", n |-> 0, s |-> str, f |-> formatting]

\* TermString.formats
Formats(fmt) ==
    CASE fmt = "GREEN"  -> "ESC[92m"
      [] fmt = "CYAN"   -> "ESC[96m"
      [] fmt = "BOLD"   -> "ESC[1m"
      [] fmt = "YELLOW" -> "ESC[33m"
      [] fmt = "RED"    -> "ESC[31m"
      [] fmt = "END"    -> "ESC[0m"

\* TermString.__repr__
RECURSIVE Wrap(_, _, _)
Wrap(output, formatting, i) ==
    IF i > Len(formatting) THEN output
    ELSE Wrap(<<Formats(formatting[i])>> \o output \o <<Formats("END")>>,
              formatting, i + 1)

\* str(item) of a table cell
PyToStr(v) == IF v.t = "TermString" THEN Wrap(v.s, v.f, 1) ELSE v.s

\* len(item) of a table cell: TermString.__len__ or len of a str
PyLen(v) == Len(v.s)

---------------------------------------------------------------------------
(* The repository, as the git commands of exe_cmd report it *)

\* A local branch: the first field of some for-each-ref line.
IsLocal(ref) == \E i \in 1..Len(refs) : StartsWith(refs[i], ref \o Space)

Index(branch) == CHOOSE i \in 1..Len(BranchPool) : BranchPool[i] = branch

\* Every branch holds this many commits of its own on top of a shared base.
CommitsOn(branch) == Index(branch) % (MaxCount + 1)

\* A ref git can resolve: a local branch or the remote-tracking branch.
Resolves(ref) == IsLocal(ref) \/ ref = Origin \o <<"a">>

HashOf(branch) == <<"#">> \o branch

TitleOf(branch) == [i \in 1..(13 * Index(branch)) |-> "t"]

\* git rev-parse --abbrev-ref HEAD: the lines of its output
GitRevParseHead(broken) == IF broken = "head" THEN <<>> ELSE <<head>>

\* git log --oneline -n 1 --format='%H' {branch}, for a local branch: the
\* lines of its output
GitLogHash(branch, broken) ==
    IF broken = "hash" THEN <<>> ELSE <<HashOf(branch)>>

\* git log --oneline -n 1 --format='%s' {branch}, for a local branch: the
\* lines of its output
GitLogTitle(branch, broken) ==
    IF broken = "title" THEN <<>> ELSE <<TitleOf(branch)>>

\* git rev-list {branch_a}..{branch_b} --count: the lines of its output.
\* git prints nothing on standard output when a ref does not resolve.
GitRevList(branch_a, branch_b) ==
    LET local_b == IsLocal(branch_b)
    IN IF ~Resolves(branch_a) \/ ~(local_b \/ Resolves(branch_b)) THEN <<>>
       ELSE IF branch_a = branch_b \/ ~local_b THEN <<StrOfNat(0)>>
       ELSE <<StrOfNat(CommitsOn(branch_b))>>

\* What a query may be made to print nothing by: none, or one kind of query.
Broken == {"none", "head", "hash", "title"}

\* The texts git rebase prints on standard output.
RebaseOk == <<"Successfully", "rebased">>
RebaseConflict == <<"CONFLICT", "(content):", "Merge", "conflict">>
RebaseResults == {RebaseOk, RebaseConflict}

---------------------------------------------------------------------------
(* gather_upstreams, commit_count_difference *)

NoUpstreamOnlyEmpty(upstream) == upstream = <<>>

\* upstream == "" or upstream.startswith("origin/")
NoUpstream(upstream) == upstream = <<>> \/ StartsWith(upstream, Origin)

\* One entry of gather_upstreams' dictionary, from one output line.
UpstreamEntry(line) ==
    LET split == Split(line)
        branch == split[1]
        upstream == split[2]
    IN [branch |-> branch,
        upstream |-> IF NoUpstream(upstream) THEN PyNone ELSE PyStr(upstream)]

\* The dictionary branch_name: upstream_branch, in insertion order.
GatherUpstreams == [i \in 1..Len(refs) |-> UpstreamEntry(refs[i])]

CommitCountDifference(branch_a, branch_b) ==
    IF branch_a.t = "None" \/ branch_b.t = "None" THEN PyNone
    ELSE LET result == GitRevList(branch_a.s, branch_b.s)
         IN IF result # <<>> THEN PyInt(IntOfStr(result[1])) ELSE PyNone

---------------------------------------------------------------------------
(* upstream_tree *)

TreeNode(name) ==
    [name |-> PyStr(name), children |-> <<>>, ahead |-> PyInt(0),
     behind |-> PyInt(0), title |-> <<>>, hash |-> <<>>,
     active |-> FALSE, root |-> FALSE]

IsActiveAlways(branch, active_branch) == TRUE

\* branch == active_branch
IsActive(branch, active_branch) == branch = active_branch

\* upstream is not None and upstream in nodes.keys()
IsParent(upstream, ns) == upstream.t # "None" /\ upstream.s \in DOMAIN ns

\* key=lambda x: x.name
ChildKeyLess(ns, x, y) == StrLess(ns[x].name.s, ns[y].name.s)

RootKeyByName(ns, x, y) == StrLess(ns[x].name.s, ns[y].name.s)

\* key=lambda x: (len(x.children), x.name)
RootKeyLess(ns, x, y) ==
    \/ Len(ns[x].children) < Len(ns[y].children)
    \/ /\ Len(ns[x].children) = Len(ns[y].children)
       /\ StrLess(ns[x].name.s, ns[y].name.s)

KeyLess(ns, which, x, y) ==
    IF which = "children" THEN ChildKeyLess(ns, x, y) ELSE RootKeyLess(ns, x, y)

\* list.sort(key=...): a stable sort of a list of nodes, by the children
\* key (upstream_tree) or the roots key (branch_tree_string).
RECURSIVE InsertSorted(_, _, _, _)
InsertSorted(sorted, x, ns, which) ==
    IF sorted = <<>> THEN <<x>>
    ELSE IF KeyLess(ns, which, x, Head(sorted)) THEN <<x>> \o sorted
    ELSE <<Head(sorted)>> \o InsertSorted(Tail(sorted), x, ns, which)

RECURSIVE SortFrom(_, _, _, _, _)
SortFrom(list, i, sorted, ns, which) ==
    IF i > Len(list) THEN sorted
    ELSE SortFrom(list, i + 1, InsertSorted(sorted, list[i], ns, which),
                  ns, which)

Sort(list, ns, which) == SortFrom(list, 1, <<>>, ns, which)

\* The loop over branches.items(), from entry i on. The result is the
\* exception raised, the nodes, and whether a query printed no line.
RECURSIVE BuildLoop(_, _, _, _, _, _)
BuildLoop(branches, i, ns, active_branch, broken, empty) ==
    IF i > Len(branches)
    THEN [err |-> "", nodes |-> ns, empty |-> empty]
    ELSE LET entry == branches[i]
             branch == entry.branch
             upstream == entry.upstream
             behind == CommitCountDifference(PyStr(branch), upstream)
             ahead == CommitCountDifference(upstream, PyStr(branch))
             \* with an upstream, None is what an output of no line gives
             noCount == /\ upstream.t # "None"
                        /\ (behind.t = "None" \/ ahead.t = "None")
             hashLines == GitLogHash(branch, broken)
             titleLines == GitLogTitle(branch, broken)
         IN IF hashLines = <<>> \/ titleLines = <<>>
            THEN [err |-> "IndexError", nodes |-> <<>>, empty |-> TRUE]
            ELSE LET node == [ns[branch] EXCEPT
                                 !.behind = behind,
                                 !.ahead = ahead,
                                 !.hash = hashLines[1],
                                 !.title = titleLines[1],
                                 !.active = IsActive(branch, active_branch)]
                     linked ==
                         IF IsParent(upstream, ns)
                         THEN IF upstream.s = branch
                              THEN [ns EXCEPT ![branch] =
                                       [node EXCEPT !.children =
                                            Append(@, branch)]]
                              ELSE [ns EXCEPT
                                       ![branch] = node,
                                       ![upstream.s].children =
                                           Append(@, branch)]
                         ELSE [ns EXCEPT ![branch] = [node EXCEPT !.root = TRUE]]
                 IN BuildLoop(branches, i + 1, linked, active_branch, broken,
                              empty \/ noCount)

\* upstream_tree(): [err, nodes, empty]
UpstreamTree(broken) ==
    LET branches == GatherUpstreams
        keys == {branches[i].branch : i \in 1..Len(branches)}
        fresh == [branch \in keys |-> TreeNode(branch)]
        headLines == GitRevParseHead(broken)
    IN IF headLines = <<>>
       THEN [err |-> "IndexError", nodes |-> <<>>, empty |-> TRUE]
       ELSE LET built == BuildLoop(branches, 1, fresh, headLines[1], broken,
                                   FALSE)
            IN IF built.err # "" THEN built
               ELSE [built EXCEPT !.nodes =
                        [k \in DOMAIN built.nodes |->
                            [built.nodes[k] EXCEPT !.children =
                                Sort(@, built.nodes, "children")]]]

---------------------------------------------------------------------------
(* branch_tree_string *)

Corner == <<"u2514", "u2500", " ">>
Tee == <<"u251C", "u2500", " ">>
Bar == <<"u2502", " ", " ", " ">>
Indent == <<" ", " ", " ", " ">>

\* pipe = "" if is_first else prefix + (corner if is_last else tee)
Pipe(prefix, is_first, is_last) ==
    IF is_first THEN <<>> ELSE prefix \o (IF is_last THEN Corner ELSE Tee)

\* next_prefix = prefix + "    " if is_last else bar: Python reads this as
\* (prefix + "    ") if is_last else bar
NextPrefix(prefix, is_last) == IF is_last THEN prefix \o Indent ELSE Bar

\* The commit count colouring of node.behind
BehindCell(behind) ==
    IF behind.t = "None" THEN PyStr(<<>>)
    ELSE IF -behind.n < 0 THEN TermString(StrOfInt(-behind.n), <<"RED">>)
    ELSE PyStr(<<" ", "0">>)

\* The commit count colouring of node.ahead
AheadCell(ahead) ==
    IF ahead.t = "None" THEN PyStr(<<>>)
    ELSE IF ahead.n > 0
         THEN TermString(<<"+">> \o StrOfInt(ahead.n), <<"GREEN">>)
    ELSE PyStr(<<" ", "0">>)

\* Color coding for active branch
NameCell(node) ==
    IF node.active THEN TermString(PyToStr(node.name), <<"BOLD", "GREEN">>)
    ELSE node.name

\* fill_table(node, prefix, is_first, is_last) on st = [nodes, table]: the
\* node's fields are overwritten in place, its row appended, its children
\* filled from child i on.
RECURSIVE FillTable(_, _, _, _, _)
RECURSIVE FillChildren(_, _, _, _)
FillTable(st, k, prefix, is_first, is_last) ==
    LET node == st.nodes[k]
        changed == [node EXCEPT !.name = NameCell(node),
                                !.behind = BehindCell(node.behind),
                                !.ahead = AheadCell(node.ahead)]
        row == <<PyStr(Pipe(prefix, is_first, is_last)), changed.name,
                 changed.behind, changed.ahead,
                 PyStr(Truncate(changed.title, TitleWidth)),
                 TermString(changed.hash, <<"YELLOW">>)>>
    IN FillChildren([nodes |-> [st.nodes EXCEPT ![k] = changed],
                     table |-> Append(st.table, row)],
                    k, 1, NextPrefix(prefix, is_last))

FillChildren(st, k, i, next_prefix) ==
    LET children == st.nodes[k].children
    IN IF i > Len(children) THEN st
       ELSE FillChildren(FillTable(st, children[i], next_prefix, FALSE,
                                   i = Len(children)),
                         k, i + 1, next_prefix)

\* roots = [node for node in nodes.values() if node.root], then sorted
RECURSIVE RootsFrom(_, _, _)
RootsFrom(order, i, ns) ==
    IF i > Len(order) THEN <<>>
    ELSE (IF ns[order[i]].root THEN <<order[i]>> ELSE <<>>)
         \o RootsFrom(order, i + 1, ns)

\* The keys of the nodes dictionary, in insertion order.
NodeOrder == [i \in 1..Len(refs) |-> UpstreamEntry(refs[i]).branch]

Roots(ns) == Sort(RootsFrom(NodeOrder, 1, ns), ns, "roots")

\* for i, root in enumerate(roots): fill_table(root, is_first=True)
RECURSIVE FillRoots(_, _, _)
FillRoots(st, roots, i) ==
    IF i > Len(roots) THEN st
    ELSE FillRoots(FillTable(st, roots[i], <<>>, TRUE, TRUE), roots, i + 1)

RECURSIVE MaxWidth(_, _, _)
MaxWidth(tbl, c, r) ==
    IF r > Len(tbl) THEN 0
    ELSE Max(PyLen(tbl[r][c]) + 2, MaxWidth(tbl, c, r + 1))

\* column_widths: zip(*table) of an empty table has no columns
ColumnWidths(tbl) ==
    IF tbl = <<>> THEN <<>> ELSE [c \in 1..6 |-> MaxWidth(tbl, c, 1)]

\* One row of the output: the cells from cell i on (i counts from 1 here),
\* column_width being what the previous cell left.
RECURSIVE RowString(_, _, _, _)
RowString(row, widths, i, column_width) ==
    IF i > Len(row) THEN <<"\n">>
    ELSE LET width == IF i = 2 THEN widths[1] + widths[2]
                      ELSE IF i > 2 THEN widths[i]
                      ELSE column_width
             content_length == IF i = 2 THEN PyLen(row[2]) + PyLen(row[1])
                               ELSE PyLen(row[i])
             padding == Min(width - content_length, width)
         IN PyToStr(row[i]) \o Spaces(padding)
            \o RowString(row, widths, i + 1, width)

RECURSIVE OutputFrom(_, _, _)
OutputFrom(tbl, widths, r) ==
    IF r > Len(tbl) THEN <<>>
    ELSE RowString(tbl[r], widths, 1, 0) \o OutputFrom(tbl, widths, r + 1)

OutputString(tbl) == OutputFrom(tbl, ColumnWidths(tbl), 1)

---------------------------------------------------------------------------
(* flow *)

ConflictNever(result) == FALSE

\* "CONFLICT" in result
HasConflict(result) == "CONFLICT" \in Range(result)

\* The frames whose loop has no child left have returned.
RECURSIVE Unwind(_, _)
Unwind(frames, ns) ==
    IF frames = <<>> THEN frames
    ELSE LET top == frames[Len(frames)]
         IN IF top.i > Len(ns[top.node].children)
            THEN Unwind(SubSeq(frames, 1, Len(frames) - 1), ns)
            ELSE frames

DescendNever(frames, node, child) ==
    Append(SubSeq(frames, 1, Len(frames) - 1),
           [node |-> node, i |-> frames[Len(frames)].i + 1])

\* if node.children: recursive_rebase(child), then the loop's next child
Descend(frames, node, child) ==
    Append(Append(SubSeq(frames, 1, Len(frames) - 1),
                  [node |-> node, i |-> frames[Len(frames)].i + 1]),
           [node |-> child, i |-> 1])

RebaseCall(upstream, child, result) ==
    [cmd |-> "rebase", upstream |-> upstream, child |-> child,
     result |-> result]

CheckoutCall(branch) ==
    [cmd |-> "checkout", upstream |-> <<>>, child |-> branch, result |-> <<>>]

---------------------------------------------------------------------------
(* The process *)

\* The index in BranchPool of the branch i's upstream names, 0 if none.
ParentIndex(up, i, n) ==
    IF \E j \in 1..n : BranchPool[j] = up[i]
    THEN CHOOSE j \in 1..n : BranchPool[j] = up[i]
    ELSE 0

RECURSIVE Climbs(_, _, _, _)
Climbs(up, i, n, k) ==
    IF i = 0 THEN TRUE
    ELSE IF k = 0 THEN FALSE
    ELSE Climbs(up, ParentIndex(up, i, n), n, k - 1)

\* No branch is its own upstream, directly or through others.
Acyclic(up, n) == \A i \in 1..n : Climbs(up, i, n, n)

UpstreamChoices(n) ==
    {<<>>, Origin \o <<"a">>, Dangling} \cup {BranchPool[j] : j \in 1..n}

Init ==
    \E n \in 1..MaxBranches :
        \E up \in [1..n -> UpstreamChoices(n)] :
            /\ Acyclic(up, n)
            /\ refs = [i \in 1..n |-> BranchPool[i] \o Space \o up[i]]
            /\ head \in {BranchPool[j] : j \in 1..n} \cup {HeadName}
            /\ head0 = head
            /\ pc = "main"
            /\ nodes = <<>>
            /\ table = <<>>
            /\ stack = <<>>
            /\ parent = <<>>
            /\ calls = <<>>
            /\ printed = <<>>
            /\ emptyReply = FALSE
            /\ exitStatus = -1

\* An uncaught exception ends the process with status 1.
Raise ==
    /\ pc' = "done"
    /\ exitStatus' = 1

\* What both commands begin with: the call of upstream_tree(), which changes
\* nothing in the repository. flow's own current_branch() reads the same HEAD
\* just before it, and fails as upstream_tree's does when it prints no line.
Build ==
    /\ pc = "main"
    /\ \E broken \in Broken :
           LET tree == UpstreamTree(broken)
           IN /\ emptyReply' = tree.empty
              /\ IF tree.err # ""
                 THEN Raise /\ UNCHANGED nodes
                 ELSE /\ pc' = "built"
                      /\ nodes' = tree.nodes
                      /\ UNCHANGED exitStatus
    /\ UNCHANGED <<refs, head, head0, table, stack, parent, calls, printed>>

\* main: branch tree, the rest of branch_tree_string() and its print
TreeRender ==
    /\ pc = "built"
    /\ LET st == FillRoots([nodes |-> nodes, table |-> <<>>], Roots(nodes), 1)
       IN /\ nodes' = st.nodes
          /\ table' = st.table
          /\ printed' = Append(printed, OutputString(st.table) \o <<"\n">>)
    /\ pc' = "done"
    /\ exitStatus' = 0
    /\ UNCHANGED <<refs, head, head0, stack, parent, calls, emptyReply>>

\* main: branch flow, root_node = upstream_tree()[parent] and the first
\* call of recursive_rebase
FlowStart ==
    /\ pc = "built"
    /\ parent' = GitRevParseHead("none")[1]
    /\ IF parent' \notin DOMAIN nodes
       THEN Raise /\ UNCHANGED stack
       ELSE /\ pc' = "flow"
            /\ stack' = Unwind(<<[node |-> parent', i |-> 1]>>, nodes)
            /\ UNCHANGED exitStatus
    /\ UNCHANGED <<refs, head, head0, nodes, table, calls, printed, emptyReply>>

\* One turn of recursive_rebase's loop: the rebase of the next child
FlowRebase ==
    /\ pc = "flow"
    /\ stack # <<>>
    /\ LET top == stack[Len(stack)]
           node == nodes[top.node]
           child == nodes[node.children[top.i]]
       IN \E result \in RebaseResults :
              /\ calls' = Append(calls, RebaseCall(PyToStr(node.name),
                                                   PyToStr(child.name), result))
              /\ IF HasConflict(result)
                 THEN /\ printed' = printed \o
                                    <<PyToStr(child.name) \o <<" ", " ">>,
                                      result \o <<"\n">> >>
                      /\ head' = HeadName
                      /\ pc' = "done"
                      /\ exitStatus' = 0
                      /\ UNCHANGED stack
                 ELSE /\ printed' = Append(printed,
                                           PyToStr(child.name) \o <<" ", " ">>)
                      /\ head' = PyToStr(child.name)
                      /\ stack' = Unwind(Descend(stack, top.node,
                                                 node.children[top.i]), nodes)
                      /\ UNCHANGED <<pc, exitStatus>>
    /\ UNCHANGED <<refs, head0, nodes, table, parent, emptyReply>>

CheckoutCurrent == head

\* The branch flow checks out at its end: checkout(parent)
CheckoutTarget == parent

\* The end of flow: print(""), checkout(parent)
FlowFinish ==
    /\ pc = "flow"
    /\ stack = <<>>
    /\ printed' = Append(printed, <<"\n">>)
    /\ calls' = Append(calls, CheckoutCall(CheckoutTarget))
    /\ head' = CheckoutTarget
    /\ pc' = "done"
    /\ exitStatus' = 0
    /\ UNCHANGED <<refs, head0, nodes, table, stack, parent, emptyReply>>

Next == Build \/ TreeRender \/ FlowStart \/ FlowRebase \/ FlowFinish

Spec == Init /\ [][Next]_vars

---------------------------------------------------------------------------
(* What the claims speak of, read from the repository *)

\* A line of for-each-ref holds one space, between branch and upstream.
SpaceAt(line) == CHOOSE k \in 1..Len(line) : line[k] = " "

RefBranch(i) == SubSeq(refs[i], 1, SpaceAt(refs[i]) - 1)

RefUpstream(i) == SubSeq(refs[i], SpaceAt(refs[i]) + 1, Len(refs[i]))

Branches == {RefBranch(i) : i \in 1..Len(refs)}

UpstreamOf(b) == RefUpstream(CHOOSE i \in 1..Len(refs) : RefBranch(i) = b)

BeginsWithOrigin(u) ==
    Len(u) >= Len(Origin) /\ \A k \in 1..Len(Origin) : u[k] = Origin[k]

\* For a local branch u: the branches b with upstream(b) = u, none if u
\* begins with "origin/"
ChildrenOf(u) ==
    IF BeginsWithOrigin(u) THEN {}
    ELSE {RefBranch(i) : i \in {j \in 1..Len(refs) : RefUpstream(j) = u}}

IsEdge(u, b) == u \in Branches /\ b \in ChildrenOf(u)

IsRootBranch(b) ==
    LET u == UpstreamOf(b) IN BeginsWithOrigin(u) \/ u \notin Branches

ParentOf(b) == UpstreamOf(b)

\* BranchPool is in ascending order of names.
NameBefore(x, y) == Index(x) < Index(y)

\* The members of a set of branches in ascending order of names.
RECURSIVE Ascending(_)
Ascending(set) ==
    IF set = {} THEN <<>>
    ELSE LET first == CHOOSE x \in set : \A y \in set \ {x} : NameBefore(x, y)
         IN <<first>> \o Ascending(set \ {first})

\* The edges of u's subtree, depth first, children in ascending order.
RECURSIVE PreorderEdges(_)
RECURSIVE PreorderFrom(_, _, _)
PreorderEdges(u) == PreorderFrom(u, Ascending(ChildrenOf(u)), 1)

PreorderFrom(u, children, i) ==
    IF i > Len(children) THEN <<>>
    ELSE <<(<<u, children[i]>>)>> \o PreorderEdges(children[i])
         \o PreorderFrom(u, children, i + 1)

IsPrefix(s, t) == Len(s) <= Len(t) /\ SubSeq(t, 1, Len(s)) = s

ConflictIn(call) == "CONFLICT" \in Range(call.result)

SomeConflict == \E i \in 1..Len(calls) : ConflictIn(calls[i])

\* The rebase calls issued so far, as (upstream, child) pairs.
RECURSIVE RebasesFrom(_)
RebasesFrom(i) ==
    IF i > Len(calls) THEN <<>>
    ELSE (IF calls[i].cmd = "rebase"
          THEN <<(<<calls[i].upstream, calls[i].child>>)>> ELSE <<>>)
         \o RebasesFrom(i + 1)

Rebases == RebasesFrom(1)

\* flow() ran its traversal to the end and no rebase reported a conflict.
FlowCompleted ==
    pc = "done" /\ parent \in Branches /\ exitStatus = 0 /\ ~SomeConflict

\* branch_tree_string() has produced its rows.
Rendered == pc = "done" /\ table # <<>>

---------------------------------------------------------------------------
(* C1: once a rebase issued by flow() returns text containing "CONFLICT",   *)
(* no further rebase is issued and the final checkout is never performed:   *)
(* a call whose result holds "CONFLICT" is the last call, and the process   *)
(* has ended.                                                               *)
C1_ConflictShortCircuit ==
    \A i \in 1..Len(calls) :
        ConflictIn(calls[i]) => i = Len(calls) /\ pc = "done"

\* A conflict on a child that has children of its own and a later sibling.
C1_Witness ==
    /\ pc = "done"
    /\ SomeConflict
    /\ LET last == calls[Len(calls)]
       IN /\ ChildrenOf(last.child) # {}
          /\ \E b \in ChildrenOf(last.upstream) : NameBefore(last.child, b)

(* C2: when a rebase issued by flow() returns text containing "CONFLICT",   *)
(* the process prints the conflict text and ends with a non-zero status.    *)
C2_ConflictExitsNonZero ==
    (pc = "done" /\ SomeConflict) =>
        /\ printed[Len(printed)] = calls[Len(calls)].result \o <<"\n">>
        /\ exitStatus # 0

(* C3: the rebase calls issued by flow() are, in a traversal without        *)
(* conflict, exactly the depth-first pre-order list of the edges of the     *)
(* starting branch's subtree, children in ascending name order; until the   *)
(* traversal ends they are a prefix of that list.                           *)
C3_FlowTraversalOrder ==
    (pc \in {"flow", "done"} /\ parent \in Branches) =>
        /\ IsPrefix(Rebases, PreorderEdges(head0))
        /\ FlowCompleted => Rebases = PreorderEdges(head0)

\* A completed traversal that went into the first child's subtree before
\* the second child.
C3_Witness ==
    /\ FlowCompleted
    /\ Len(Rebases) >= 3
    /\ Rebases[2][1] = Rebases[1][2]
    /\ Rebases[3][1] = Rebases[1][1]

(* C4: after a flow() traversal without conflict the last command is the    *)
(* checkout of the branch that was checked out when flow() started, issued  *)
(* after every rebase of the traversal, and that branch is checked out      *)
(* again; no checkout is issued before.                                     *)
C4_CheckoutRestoresStart ==
    /\ \A i \in 1..Len(calls) : calls[i].cmd = "checkout" => i = Len(calls)
    /\ FlowCompleted =>
           /\ Len(calls) = Len(PreorderEdges(head0)) + 1
           /\ calls[Len(calls)].cmd = "checkout"
           /\ calls[Len(calls)].child = head0
           /\ head = head0

\* A completed traversal whose rebases had moved the checkout elsewhere.
C4_Witness ==
    /\ FlowCompleted
    /\ Len(calls) >= 3
    /\ calls[Len(calls) - 1].child # head0
    /\ head = head0

(* C5: upstream_tree() returns one node per branch; a node is a root iff    *)
(* its upstream is empty, begins with "origin/" or is no local branch; and  *)
(* the (parent, child) pairs of the children lists are exactly the pairs    *)
(* (u, b) with upstream(b) = u, u local and not beginning with "origin/",   *)
(* each once.                                                               *)
C5_ForestShape ==
    pc = "built" =>
        /\ DOMAIN nodes = Branches
        /\ \A b \in Branches :
               /\ nodes[b].name = PyStr(b)
               /\ nodes[b].root <=>
                      \/ UpstreamOf(b) = <<>>
                      \/ BeginsWithOrigin(UpstreamOf(b))
                      \/ UpstreamOf(b) \notin Branches
               /\ Range(nodes[b].children) = ChildrenOf(b)
               /\ Len(nodes[b].children) = Cardinality(ChildrenOf(b))

\* A forest with an edge, a branch whose upstream is gone, and a branch
\* whose upstream begins with "origin/" and names a local branch.
C5_Witness ==
    /\ pc = "built"
    /\ \E u, b \in Branches : IsEdge(u, b)
    /\ \E b \in Branches : UpstreamOf(b) = Dangling /\ nodes[b].root
    /\ \E b \in Branches :
           /\ BeginsWithOrigin(UpstreamOf(b))
           /\ UpstreamOf(b) \in Branches
           /\ nodes[b].root

(* C6, as claimed: the forest upstream_tree() returns has exactly one       *)
(* active node, and its name is the result of current_branch().             *)
C6_ExactlyOneActive ==
    pc = "built" =>
        /\ Cardinality({k \in DOMAIN nodes : nodes[k].active}) = 1
        /\ \A k \in DOMAIN nodes : nodes[k].active => k = head

(* C6, amended: the active nodes of the forest are exactly the nodes named  *)
(* by the result of current_branch(): one node when that result is a local  *)
(* branch, none otherwise (a detached HEAD).                                *)
C6_ActiveIsCurrent ==
    pc = "built" =>
        /\ {k \in DOMAIN nodes : nodes[k].active} = {head} \cap Branches
        /\ Cardinality({k \in DOMAIN nodes : nodes[k].active}) =
               (IF head \in Branches THEN 1 ELSE 0)

\* A forest of several branches, one of them the current branch.
C6_Witness ==
    /\ pc = "built"
    /\ Cardinality(Branches) >= 3
    /\ head \in Branches
    /\ nodes[head].active

\* Whether b is the last of its parent's children; a root is filled with
\* is_last = True.
LastAtLevel(b) ==
    IsRootBranch(b) \/ \A c \in ChildrenOf(ParentOf(b)) : ~NameBefore(b, c)

\* The ancestors' contributions, outermost first.
RECURSIVE AncestorPrefix(_)
AncestorPrefix(b) ==
    IF IsRootBranch(b) THEN <<>>
    ELSE AncestorPrefix(ParentOf(b))
         \o (IF LastAtLevel(ParentOf(b)) THEN Indent ELSE Bar)

(* C7: the row of every non-root node begins with its ancestors'            *)
(* contributions, outermost first (four spaces for an ancestor that was the  *)
(* last child at its level, the bar and three spaces otherwise), followed   *)
(* by the corner if the node is the last of its siblings and the tee        *)
(* otherwise.                                                               *)
C7_PipePrefix ==
    Rendered =>
        \A r \in 1..Len(table) :
            LET b == table[r][2].s
            IN ~IsRootBranch(b) =>
                   table[r][1].s = AncestorPrefix(b)
                       \o (IF LastAtLevel(b) THEN Corner ELSE Tee)

\* The names of the root rows, in the order of the table.
RECURSIVE RootRowsFrom(_)
RootRowsFrom(r) ==
    IF r > Len(table) THEN <<>>
    ELSE (IF table[r][1].s = <<>> THEN <<table[r][2].s>> ELSE <<>>)
         \o RootRowsFrom(r + 1)

RootRows == RootRowsFrom(1)

\* (number of direct children, name) of x before that of y
RootBefore(x, y) ==
    \/ Cardinality(ChildrenOf(x)) < Cardinality(ChildrenOf(y))
    \/ /\ Cardinality(ChildrenOf(x)) = Cardinality(ChildrenOf(y))
       /\ NameBefore(x, y)

(* C8: every children list of the forest upstream_tree() returns is         *)
(* strictly ascending by name, and branch_tree_string() emits the rows of   *)
(* the roots in ascending order of (number of direct children, name).       *)
C8_SortOrder ==
    /\ pc = "built" =>
           \A k \in DOMAIN nodes :
               \A i, j \in 1..Len(nodes[k].children) :
                   i < j => NameBefore(nodes[k].children[i],
                                       nodes[k].children[j])
    /\ Rendered =>
           /\ Range(RootRows) = {b \in Branches : IsRootBranch(b)}
           /\ \A i, j \in 1..Len(RootRows) :
                  i < j => RootBefore(RootRows[i], RootRows[j])

\* Rendered roots whose order by child count differs from their order by
\* name, one of them with several children.
C8_Witness ==
    /\ Rendered
    /\ \E i, j \in 1..Len(RootRows) :
           /\ i < j
           /\ NameBefore(RootRows[j], RootRows[i])
           /\ Cardinality(ChildrenOf(RootRows[j])) >= 2

(* C9: if a query made while building the forest prints no output line,     *)
(* upstream_tree() fails instead of returning a forest: the process ends    *)
(* with an error and no forest; an empty commit count is not turned into    *)
(* None.                                                                    *)
C9_EmptyReplyFails ==
    emptyReply => pc = "done" /\ exitStatus = 1 /\ nodes = <<>>

(* C10: rendering leaves the forest unchanged: when branch_tree_string()    *)
(* has produced its rows, every node has the fields it had when             *)
(* upstream_tree() returned.                                                *)
C10_RenderKeepsForest ==
    [][(pc = "built" /\ pc' = "done" /\ table' # <<>>) => nodes' = nodes]_vars

====
